---- MODULE Spec2Model ----
(***************************************************************************)
(* A model of kalite/securesync/models.py: signed, counter-identified      *)
(* records (SyncedModel), devices and their local metadata, the per-device *)
(* counter, the session handshake, and the export/import of signed         *)
(* records between two stores.                                             *)
(*                                                                         *)
(* Python strings are TLA+ strings; "%s" formatting and "&".join are       *)
(* string concatenation, so two canonical representations are equal        *)
(* exactly when the Python strings are.                                    *)
(***************************************************************************)
EXTENDS Integers, Sequences, FiniteSets, TLC

VARIABLES
    stores,     \* store -> [db: synced rows, meta: DeviceMetadata rows]
    usedRandom, \* uuid4() results already drawn
    last,       \* what the last operation did and returned
    pc,         \* caller -> position inside increment_and_get_counter
    local,      \* caller -> the DeviceMetadata object the caller holds
    issued,     \* caller -> the value increment_and_get_counter returned
    startPos,   \* device -> counter_position before the concurrent calls
    objA,       \* a signed in-memory record (canonicalisation runs)
    objB,       \* the same record after one attribute was overwritten
    sessions,   \* client_nonce -> SyncSession row and handshake state
    wire,       \* the serialized batch in flight
    created,    \* every id derivation so far: acting device id, counter, id
    opsLeft     \* operations still allowed in a run

vars == <<stores, usedRandom, last, pc, local, issued, startPos, objA, objB,
          sessions, wire, created, opsLeft>>

-----------------------------------------------------------------------------
(* Python values. A value carries its type and its str(); truthiness is    *)
(* Python's: None, "", 0, 0.0 and False are falsy, a model instance is not.*)

NoneInt == -1

PyNone == [t |-> "none", s |-> "None"]
PyStr(x) == [t |-> "str", s |-> x]
PyInt(n) == IF n = NoneInt THEN PyNone ELSE [t |-> "int", s |-> ToString(n)]
PyFloat(x) == [t |-> "float", s |-> x]
PyBool(b) == [t |-> "bool", s |-> IF b THEN "True" ELSE "False"]
\* a foreign key attribute: the related instance (identified by its pk) or None
PyRef(pkv) == IF pkv = "" THEN PyNone ELSE [t |-> "model", s |-> pkv]

Truthy(v) ==
    CASE v.t = "none"  -> FALSE
      [] v.t = "str"   -> v.s # ""
      [] v.t = "int"   -> v.s # "0"
      [] v.t = "float" -> v.s # "0.0"
      [] v.t = "bool"  -> v.s = "True"
      [] OTHER         -> TRUE

-----------------------------------------------------------------------------
(* Field declarations.                                                     *)

_unhashable_fields == {"signature", "signed_by"}
_always_hash_fields == <<"signed_version", "id">>

BaseFields == <<"id", "counter", "signature", "signed_version", "signed_by">>

OwnFields(model) ==
    CASE model = "Device" -> <<"name", "description", "public_key", "revoked">>
      [] model = "Organization" -> <<"name", "description">>
      [] model = "Zone" -> <<"name", "description", "organization">>
      [] model = "Facility" ->
            <<"name", "description", "address", "address_normalized",
              "latitude", "longitude", "zone">>
      [] model = "FacilityUser" ->
            <<"facility", "username", "first_name", "last_name", "notes",
              "password">>

\* self._meta.fields, in declaration order (the abstract base's fields first)
MetaFields(model) == BaseFields \o OwnFields(model)

requires_authority_signature(model) == model # "FacilityUser"

syncing_models == <<"Device", "Organization", "Zone", "Facility", "FacilityUser">>

-----------------------------------------------------------------------------
(* Records (instances of SyncedModel subclasses). An instance is           *)
(* [model, id, counter, signature, signed_version, signed_by, f], f being  *)
(* the attributes its concrete class declares. id "" is an unset id,       *)
(* counter NoneInt an unset counter, signed_by "" a null foreign key.      *)

NoObj ==
    [model |-> "None", id |-> "", counter |-> NoneInt, signature |-> "",
     signed_version |-> 1, signed_by |-> "", f |-> <<>>]

\* getattr(self, field)
Attr(obj, field) ==
    CASE field = "id" -> PyStr(obj.id)
      [] field = "counter" -> PyInt(obj.counter)
      [] field = "signature" -> PyStr(obj.signature)
      [] field = "signed_version" -> PyInt(obj.signed_version)
      [] field = "signed_by" -> PyRef(obj.signed_by)
      [] OTHER -> obj.f[field]

Range(seq) == {seq[i] : i \in 1..Len(seq)}

\* every field name, in the order Python's string comparison gives
LexOrder ==
    <<"address", "address_normalized", "counter", "description", "facility",
      "first_name", "id", "last_name", "latitude", "longitude", "name",
      "notes", "organization", "password", "public_key", "revoked", "signature", "signed_by",
      "signed_version", "username", "zone">>

InList(x, seq) == x \in Range(seq)

\* fields.sort()
SortFields(fields) == SelectSeq(LexOrder, LAMBDA x : InList(x, fields))

\* for field in _always_hash_fields: if field not in fields: fields = [field] + fields
RECURSIVE PrependAlways(_, _)
PrependAlways(fields, i) ==
    IF i > Len(_always_hash_fields) THEN fields
    ELSE PrependAlways(
            IF InList(_always_hash_fields[i], fields) THEN fields
            ELSE <<_always_hash_fields[i]>> \o fields,
            i + 1)

\* the fields _hashable_representation walks, in order
HashFields(obj, fields) ==
    PrependAlways(
        IF fields = <<>>
        THEN SortFields(SelectSeq(MetaFields(obj.model),
                                  LAMBDA x : x \notin _unhashable_fields))
        ELSE fields,
        1)

\* chunks: "%s=%s" % (field, val) for every field whose value is truthy
RECURSIVE Chunks(_, _, _)
Chunks(obj, fields, i) ==
    IF i > Len(fields) THEN <<>>
    ELSE (IF Truthy(Attr(obj, fields[i]))
          THEN <<fields[i] \o "=" \o Attr(obj, fields[i]).s>>
          ELSE <<>>) \o Chunks(obj, fields, i + 1)

\* "&".join(chunks)
RECURSIVE Join(_, _)
Join(chunks, i) ==
    IF i > Len(chunks) THEN ""
    ELSE IF i = Len(chunks) THEN chunks[i]
    ELSE chunks[i] \o "&" \o Join(chunks, i + 1)

SyncedModel_hashable_representation(obj, fields) ==
    Join(Chunks(obj, HashFields(obj, fields), 1), 1)

\* the list Device._hashable_representation passes
DeviceHashedFields == <<"signed_version", "name", "description", "public_key">>

Device_hashable_representation(obj) ==
    SyncedModel_hashable_representation(obj, DeviceHashedFields)

\* self._hashable_representation(), dispatched on the concrete class
hashable_representation(obj) ==
    IF obj.model = "Device" THEN Device_hashable_representation(obj)
    ELSE SyncedModel_hashable_representation(obj, <<>>)

-----------------------------------------------------------------------------
(* crypto and base64. A key pair is named by one string: crypto.sign signs *)
(* with the private half, crypto.verify accepts exactly the signatures     *)
(* made with that pair over the same message.                              *)

Keys == {"kA", "kB"}

crypto_sign(key, msg) == "sig[" \o key \o "](" \o msg \o ")"

\* base64.encodestring(x).strip()
b64encode(x) == "b64(" \o x \o ")"

\* crypto.verify(msg, base64.decodestring(signature), key): the decoded
\* signature is the one key's pair makes over msg (b64encode is injective)
crypto_verify(msg, signature, key) == signature = b64encode(crypto_sign(key, msg))

\* Device.set_public_key: ":".join(base64 of each part of key.pub())
set_public_key(key) == b64encode(key \o ".e") \o ":" \o b64encode(key \o ".n")

\* Device.get_public_key: the key whose encoding the public_key attribute is
get_public_key(dev) ==
    IF \E k \in Keys : set_public_key(k) = dev.f["public_key"].s
    THEN CHOOSE k \in Keys : set_public_key(k) = dev.f["public_key"].s
    ELSE "nokey"

\* uuid.uuid5(namespace, name).hex: a hash of the pair, taken collision-free
uuid5(namespace, name) == "u5(" \o namespace \o "," \o name \o ")"

-----------------------------------------------------------------------------
(* A store: the tables of one installation. db holds the rows of every     *)
(* SyncedModel table (the key of a row is its model and id), meta the      *)
(* DeviceMetadata rows (at most one per device: a OneToOneField).          *)

Stores == {"A", "B"}

\* crypto.public_key / the private key crypto.sign uses, per installation
LocalKey(s) == IF s = "A" THEN "kA" ELSE "kB"

EmptyStore == [db |-> {}, meta |-> {}]

HasRow(st, model, id) == \E r \in st.db : r.model = model /\ r.id = id

Lookup(st, model, id) ==
    IF HasRow(st, model, id)
    THEN CHOOSE r \in st.db : r.model = model /\ r.id = id
    ELSE NoObj

\* super(SyncedModel, self).save(): update the row with this pk, or insert it
Persist(st, obj) ==
    [st EXCEPT !.db = {r \in @ : ~(r.model = obj.model /\ r.id = obj.id)}
                        \cup {obj}]

DeviceMetadata(device) ==
    [device |-> device, is_trusted_authority |-> FALSE,
     is_own_device |-> FALSE, counter_position |-> 0]

HasMetadata(st, device) == \E m \in st.meta : m.device = device

\* Device.get_metadata
get_metadata(st, dev) ==
    IF HasMetadata(st, dev.id)
    THEN CHOOSE m \in st.meta : m.device = dev.id
    ELSE DeviceMetadata(dev.id)

\* metadata.save()
metadata_save(st, m) ==
    [st EXCEPT !.meta = {x \in @ : x.device # m.device} \cup {m}]

\* Device.get_own_device: the devices the query can put first; none when
\* no row has is_own_device (the query states no ordering)
OwnDevices(st) ==
    {Lookup(st, "Device", m.device) : m \in {x \in st.meta : x.is_own_device}}

get_own_device(st) == IF OwnDevices(st) = {} THEN {NoObj} ELSE OwnDevices(st)

\* an increment that is returned but not stored
increment_without_save(st, dev) ==
    IF dev.id = ""
    THEN [st |-> st, ret |-> 0]
    ELSE [st |-> st, ret |-> get_metadata(st, dev).counter_position + 1]

\* Device.increment_and_get_counter, run alone
increment_and_get_counter(st, dev) ==
    LET metadata == get_metadata(st, dev)
        bumped == [metadata EXCEPT !.counter_position = @ + 1]
    IN  IF dev.id = ""
        THEN [st |-> st, ret |-> 0]
        ELSE [st |-> metadata_save(st, bumped), ret |-> bumped.counter_position]

\* SyncedModel.sign with the device given
sign(obj, device, key) ==
    LET o == [obj EXCEPT !.signed_by = device.id]
    IN  [o EXCEPT !.signature =
                b64encode(crypto_sign(key, hashable_representation(o)))]

\* SyncedModel.verify, the signer being the row signed_by names
verify(st, obj) ==
    IF obj.signed_by = "" THEN FALSE
    ELSE crypto_verify(hashable_representation(obj), obj.signature,
                       get_public_key(Lookup(st, "Device", obj.signed_by)))

\* a namespace that is always a new random UUID
namespace_of_random(own_device, rnd) == rnd

\* namespace = own_device.id and uuid.UUID(own_device.id) or uuid.uuid4()
namespace_of(own_device, rnd) ==
    IF Truthy(PyStr(own_device.id)) THEN own_device.id ELSE rnd

(* A save in progress: whether it raised, the store, the instance, every   *)
(* state of the instance written to its table so far (in order), the id    *)
(* derivations made, and whether uuid4() was drawn.                        *)
Frame(st, obj) ==
    [ok |-> TRUE, st |-> st, obj |-> obj, written |-> <<>>, derived |-> <<>>,
     random |-> FALSE, own_given |-> FALSE]

\* the error raised only after the instance was written
Raised_after_write(fr) ==
    [fr EXCEPT !.ok = FALSE, !.st = Persist(fr.st, fr.obj)]

\* raise ValidationError("Cannot save another Device before registering ...")
Raised(fr) == [fr EXCEPT !.ok = FALSE]

\* self.counter = own_device.increment_and_get_counter()
with_counter(fr, inc) == [fr EXCEPT !.st = inc.st, !.obj.counter = inc.ret]

\* lines 88-89
save_counter(fr, own_device) ==
    IF ~Truthy(PyInt(fr.obj.counter))
    THEN with_counter(fr, increment_and_get_counter(fr.st, own_device))
    ELSE fr

\* super(SyncedModel, self).save(*args, **kwargs)
write(fr) ==
    [fr EXCEPT !.st = Persist(fr.st, fr.obj), !.written = @ \o <<fr.obj>>]

\* the id just derived, noted with the acting device's id and the counter
note_derived(fr, own_id) ==
    [fr EXCEPT !.derived = @ \o <<[device |-> own_id,
                                   counter |-> fr.obj.counter,
                                   id |-> fr.obj.id]>>]

\* lines 90-92
save_id(fr, own_id, namespace) ==
    IF ~Truthy(PyStr(fr.obj.id))
    THEN write(note_derived(
            [fr EXCEPT !.obj.id = uuid5(namespace, ToString(fr.obj.counter))],
            own_id))
    ELSE fr

\* lines 93-94; the acting device is the instance itself under own_device=self
save_sign(fr, own, ownIsSelf, key) ==
    IF ~Truthy(PyStr(fr.obj.signature))
    THEN [fr EXCEPT !.obj = sign(fr.obj, IF ownIsSelf THEN fr.obj ELSE own, key)]
    ELSE fr

\* SyncedModel.save on a save in progress. own is the device
\* get_own_device() gave (NoObj for None); ownIsSelf says that
\* own_device=self was passed (Device.save)
SyncedModel_save_frame(fr, own, ownIsSelf, rnd, key) ==
    LET own_device == IF ownIsSelf THEN fr.obj ELSE own
    IN  IF own_device = NoObj
        THEN Raised(fr)
        ELSE write(save_sign(
                save_id(save_counter([fr EXCEPT !.random =
                                          @ \/ ~Truthy(PyStr(own_device.id))],
                                     own_device),
                        own_device.id, namespace_of(own_device, rnd)),
                own, ownIsSelf, key))

\* SyncedModel.save
SyncedModel_save(st, obj, own, ownIsSelf, rnd, key) ==
    SyncedModel_save_frame([Frame(st, obj) EXCEPT !.own_given = ownIsSelf],
                           own, ownIsSelf, rnd, key)

\* lines 213-214: self.set_public_key(crypto.public_key); self.sign(device=self)
self_sign(obj, key) == sign(obj, obj, key)

rekey_and_sign(fr, key) ==
    [fr EXCEPT !.obj = self_sign([fr.obj EXCEPT !.f["public_key"] =
                                      PyStr(set_public_key(key))], key)]

\* a save that never records the trust
mark_trusted_never(fr, self_signed) == fr

\* lines 216-219
mark_trusted(fr, self_signed) ==
    IF self_signed
    THEN [fr EXCEPT !.st = metadata_save(fr.st,
                [get_metadata(fr.st, fr.obj) EXCEPT !.is_trusted_authority = TRUE])]
    ELSE fr

\* lines 220-223
mark_own(fr, is_own_device) ==
    IF is_own_device
    THEN [fr EXCEPT !.st = metadata_save(fr.st,
                [get_metadata(fr.st, fr.obj) EXCEPT !.is_own_device = TRUE])]
    ELSE fr

\* lines 212-223, after the first super().save returned
Device_save_rest(fr, self_signed, is_own_device, rnd, key) ==
    IF ~fr.ok THEN fr
    ELSE mark_own(
            mark_trusted(
                IF self_signed /\ is_own_device
                THEN SyncedModel_save_frame(rekey_and_sign(fr, key), NoObj,
                                            TRUE, rnd, key)
                ELSE fr,
                self_signed),
            is_own_device)

\* Device.save
Device_save(st, obj, self_signed, is_own_device, own, rnd, key) ==
    Device_save_rest(
        SyncedModel_save(st, obj, own, is_own_device, rnd, key),
        self_signed, is_own_device, rnd, key)

\* a new, unsaved instance
NewObj(model, f) ==
    [model |-> model, id |-> "", counter |-> NoneInt, signature |-> "",
     signed_version |-> 1, signed_by |-> "", f |-> f]

NewDevice(name, public_key) ==
    NewObj("Device", [name |-> PyStr(name), description |-> PyStr(""),
                      public_key |-> PyStr(public_key), revoked |-> PyBool(FALSE)])

\* Device.create_central_authority_device
create_central_authority_device(st, name, rnd, key) ==
    Device_save(st, NewDevice(name, set_public_key(key)), TRUE, TRUE, NoObj,
                rnd, key)

-----------------------------------------------------------------------------
(* Bounds of the runs.                                                     *)

MaxOps == 4
MaxRandom == 2

\* the names callers give: to a new instance, and on a later assignment
NewNames == {"a"}
Names == {"a", "b"}

\* the n-th result of uuid.uuid4() in a run (each one new)
uuid4(n) == "r" \o ToString(n)

-----------------------------------------------------------------------------
(* Local operations on one store: the callers of Device.save and of        *)
(* SyncedModel.save. A caller builds a new instance or loads a row,        *)
(* possibly assigns an attribute, and saves.                               *)

LocalStores == {"A"}
RecordModels == {"Organization", "FacilityUser"}

\* the attribute a caller edits
NameField(model) == IF model = "FacilityUser" THEN "username" ELSE "name"

NewRecord(model, name) ==
    IF model = "FacilityUser"
    THEN NewObj(model, [facility |-> PyRef("fac1"), username |-> PyStr(name),
                        first_name |-> PyStr(""), last_name |-> PyStr(""),
                        notes |-> PyStr(""), password |-> PyStr("pw")])
    ELSE NewObj(model, [name |-> PyStr(name), description |-> PyStr("")])

NoLast ==
    [op |-> "none", store |-> "A", ok |-> TRUE, prior |-> NoObj,
     obj |-> NoObj, written |-> <<>>, before |-> EmptyStore,
     own_given |-> FALSE, derived |-> <<>>]

\* the effect of a save on the variables of a run; result is what the save
\* handler returned, prior the row as it was in the table (NoObj: none)
Saved(s, op, prior, result) ==
    /\ opsLeft > 0
    /\ result.random => usedRandom < MaxRandom
    /\ opsLeft' = opsLeft - 1
    /\ stores' = [stores EXCEPT ![s] = result.st]
    /\ usedRandom' = IF result.random THEN usedRandom + 1 ELSE usedRandom
    /\ created' = created \o result.derived
    /\ last' = [op |-> op, store |-> s, ok |-> result.ok, prior |-> prior,
                obj |-> result.obj, written |-> result.written,
                before |-> stores[s], own_given |-> result.own_given,
                derived |-> result.derived]
    /\ UNCHANGED <<pc, local, issued, startPos, objA, objB, sessions, wire>>

\* Device.create_central_authority_device(name)
CreateCentralAuthorityDevice(s) ==
    \E name \in NewNames :
        Saved(s, "create_central_authority_device", NoObj,
              create_central_authority_device(stores[s], name,
                                              uuid4(usedRandom + 1), LocalKey(s)))

\* Device(name=..., public_key=...).save(self_signed, is_own_device): a
\* device registered as this installation's own carries crypto.public_key,
\* any other device the key of its own installation
SaveNewDevice(s) ==
    \E name \in NewNames, k \in Keys, self_signed \in BOOLEAN,
       is_own_device \in BOOLEAN, own \in get_own_device(stores[s]) :
        /\ is_own_device => k = LocalKey(s)
        /\ Saved(s, "Device.save", NoObj,
                 Device_save(stores[s], NewDevice(name, set_public_key(k)),
                             self_signed, is_own_device, own,
                             uuid4(usedRandom + 1), LocalKey(s)))

\* a Device row is loaded, its name assigned, and saved again
ResaveDevice(s) ==
    \E d \in {r \in stores[s].db : r.model = "Device"}, name \in Names,
       self_signed \in BOOLEAN, is_own_device \in BOOLEAN,
       own \in get_own_device(stores[s]) :
        /\ is_own_device => get_public_key(d) = LocalKey(s)
        /\ Saved(s, "Device.save", d,
                 Device_save(stores[s], [d EXCEPT !.f["name"] = PyStr(name)],
                             self_signed, is_own_device, own,
                             uuid4(usedRandom + 1), LocalKey(s)))

\* a new Organization or FacilityUser is saved
SaveNewRecord(s) ==
    \E model \in RecordModels, name \in NewNames,
       own \in get_own_device(stores[s]) :
        Saved(s, "save", NoObj,
              SyncedModel_save(stores[s], NewRecord(model, name), own, FALSE,
                               uuid4(usedRandom + 1), LocalKey(s)))

\* a row is loaded, an attribute assigned, and the instance saved again
ResaveRecord(s) ==
    \E r \in {x \in stores[s].db : x.model \in RecordModels}, name \in Names,
       own \in get_own_device(stores[s]) :
        Saved(s, "save", r,
              SyncedModel_save(stores[s],
                               [r EXCEPT !.f[NameField(r.model)] = PyStr(name)],
                               own, FALSE, uuid4(usedRandom + 1), LocalKey(s)))

Init ==
    /\ stores = [s \in Stores |-> EmptyStore]
    /\ usedRandom = 0
    /\ last = NoLast
    /\ created = <<>>
    /\ opsLeft = MaxOps
    /\ pc = <<>> /\ local = <<>> /\ issued = <<>> /\ startPos = <<>>
    /\ objA = NoObj /\ objB = NoObj
    /\ sessions = <<>> /\ wire = <<>>

Next ==
    \/ \E s \in LocalStores : CreateCentralAuthorityDevice(s)
    \/ \E s \in LocalStores : SaveNewDevice(s)
    \/ \E s \in LocalStores : ResaveDevice(s)
    \/ \E s \in LocalStores : SaveNewRecord(s)
    \/ \E s \in LocalStores : ResaveRecord(s)

Spec == Init /\ [][Next]_vars

-----------------------------------------------------------------------------
(* Properties of the local operations.                                     *)

SaveOps == {"save", "Device.save", "create_central_authority_device"}

LastSaved == last.op \in SaveOps /\ last.ok

\* C2: immediately after every successful save() of a synced record (first
\* save, re-save after an attribute was changed, save with own_device
\* given), verify() on the record is true.
C2_VerifiesAfterSave ==
    LastSaved => verify(stores[last.store], last.obj)

\* C8: in every reachable state at most one DeviceMetadata row of a store
\* has is_own_device set.
C8_SingleOwnDevice ==
    \A s \in Stores :
        Cardinality({m \in stores[s].meta : m.is_own_device}) <= 1

\* the state of the saved record at its first successful persistence: the
\* row the table held before the save, else the first state the save wrote
FirstPersisted ==
    IF last.prior # NoObj THEN last.prior ELSE last.written[1]

\* C9: the id and the counter a record holds after its first successful
\* persistence are never changed by a later write of save(): not by the
\* second phase of Device.save, not by a later re-save.
C9_IdCounterImmutable ==
    LastSaved =>
        \A i \in 1..Len(last.written) :
            /\ last.written[i].id = FirstPersisted.id
            /\ last.written[i].counter = FirstPersisted.counter

\* C10 as stated: every new record's id is deriveId(acting device id,
\* counter), so that the id is a function of that pair and of nothing else.
C10_IdFromDeviceAndCounter ==
    \A i \in 1..Len(created) :
        created[i].id = uuid5(created[i].device, ToString(created[i].counter))

\* C10, amended: a new record's id is deriveId(acting device id, counter)
\* whenever the acting device has an id (the bootstrap save of a device
\* acting for itself derives its id from a new random UUID and counter 0);
\* two created records have the same id only if they were created with the
\* same acting device and the same counter.
C10_NoIdCollision ==
    /\ \A i \in 1..Len(created) :
          IF created[i].device # ""
          THEN created[i].id =
                  uuid5(created[i].device, ToString(created[i].counter))
          ELSE created[i].counter = 0
    /\ \A i, j \in 1..Len(created) :
          (i # j /\ created[i].id = created[j].id) =>
              /\ created[i].device = created[j].device
              /\ created[i].counter = created[j].counter
              /\ created[i].device # ""

\* two devices of one store each created a record under the same counter
C10_Witness ==
    \E i, j \in 1..Len(created) :
        /\ created[i].device # "" /\ created[j].device # ""
        /\ created[i].device # created[j].device
        /\ created[i].counter = created[j].counter
        /\ created[i].id # created[j].id

\* a save called with no own_device while no DeviceMetadata row of the
\* store has is_own_device set
NoOwnDeviceSave ==
    /\ last.op \in SaveOps
    /\ ~last.own_given
    /\ OwnDevices(last.before) = {}

\* C11: save() of a synced record with no own_device given and no row with
\* is_own_device set fails with the configuration error and changes
\* nothing: no row is written, no id or counter is stored, no
\* counter_position moves.
C11_NoOwnDeviceFails ==
    NoOwnDeviceSave =>
        /\ ~last.ok
        /\ stores[last.store] = last.before
        /\ last.written = <<>>
        /\ last.derived = <<>>
C11_Witness ==
    /\ NoOwnDeviceSave
    /\ last.op = "Device.save"
    /\ ~last.ok

CentralCreated == last.op = "create_central_authority_device"

\* C12: after create_central_authority_device(name) returns, the new device
\* is persisted signed by itself with a signature that verifies under its
\* own public key, its metadata row is persisted with is_trusted_authority
\* and is_own_device set, and its id was derived with counter 0.
C12_CentralAuthorityCreated ==
    CentralCreated =>
        LET st == stores[last.store]
            row == Lookup(st, "Device", last.obj.id)
        IN  /\ last.ok
            /\ row = last.obj
            /\ row.f["name"].s \in NewNames
            /\ row.signed_by = row.id
            /\ crypto_verify(hashable_representation(row), row.signature,
                             get_public_key(row))
            /\ verify(st, row)
            /\ HasMetadata(st, row.id)
            /\ get_metadata(st, row).is_trusted_authority
            /\ get_metadata(st, row).is_own_device
            /\ Len(last.derived) = 1
            /\ last.derived[1].counter = 0
            /\ last.derived[1].id = row.id
            /\ \E n \in 1..MaxRandom : row.id = uuid5(uuid4(n), ToString(0))
\* a central authority created on a store that already had an own device
C12_Witness ==
    /\ CentralCreated
    /\ last.ok
    /\ OwnDevices(last.before) # {}
    /\ HasRow(stores[last.store], "Device", last.obj.id)

-----------------------------------------------------------------------------
(* Concurrent callers of Device.increment_and_get_counter. A caller loads  *)
(* the metadata (line 227) and later writes it back (lines 230-232);       *)
(* commit_on_success commits the write when the function returns and       *)
(* takes no lock at the read, so other callers' steps fall in between.     *)

NumCallers == 3
MaxStart == 1

Callers == 1..NumCallers

\* the ids of the persisted devices the callers allocate on; "" is the id
\* of a device that was never saved
CounterDevices == {"u5(r1,0)", "u5(r2,0)"}

NoLocal == [device |-> "", m |-> DeviceMetadata("")]

\* the callers' devices are registered: each has its metadata row, as the
\* own device of an installation has, with some counter_position
InitCounter ==
    /\ \E start \in [CounterDevices -> 0..MaxStart] :
          /\ startPos = start
          /\ stores = [s \in Stores |->
                IF s = "A"
                THEN [db |-> {},
                      meta |-> {[DeviceMetadata(d) EXCEPT
                                    !.is_own_device = TRUE,
                                    !.counter_position = start[d]] :
                                d \in CounterDevices}]
                ELSE EmptyStore]
    /\ pc = [p \in Callers |-> "idle"]
    /\ local = [p \in Callers |-> NoLocal]
    /\ issued = [p \in Callers |-> NoneInt]
    /\ usedRandom = 0 /\ last = NoLast /\ created = <<>> /\ opsLeft = 0
    /\ objA = NoObj /\ objB = NoObj /\ sessions = <<>> /\ wire = <<>>

CounterFrame ==
    UNCHANGED <<usedRandom, last, created, opsLeft, startPos, objA, objB,
                sessions, wire>>

\* lines 227-229: metadata = self.get_metadata(); a device without an id
\* returns 0 at once
IncLoad(p) ==
    /\ pc[p] = "idle"
    /\ \E dev \in CounterDevices \cup {""} :
          LET self == [NoObj EXCEPT !.model = "Device", !.id = dev]
          IN  /\ local' = [local EXCEPT ![p] =
                    [device |-> dev, m |-> get_metadata(stores["A"], self)]]
              /\ IF ~Truthy(PyStr(dev))
                 THEN pc' = [pc EXCEPT ![p] = "done"] /\
                      issued' = [issued EXCEPT ![p] = 0]
                 ELSE pc' = [pc EXCEPT ![p] = "loaded"] /\ UNCHANGED issued
    /\ UNCHANGED stores
    /\ CounterFrame

\* lines 230-232: metadata.counter_position += 1; metadata.save(); return
\* metadata.counter_position. The row is written from the caller's object
IncStore(p) ==
    /\ pc[p] = "loaded"
    /\ LET bumped == [local[p].m EXCEPT !.counter_position = @ + 1]
       IN  /\ stores' = [stores EXCEPT !["A"] = metadata_save(@, bumped)]
           /\ local' = [local EXCEPT ![p].m = bumped]
           /\ issued' = [issued EXCEPT ![p] = bumped.counter_position]
           /\ pc' = [pc EXCEPT ![p] = "done"]
    /\ CounterFrame

NextCounter ==
    \/ \E p \in Callers : IncLoad(p)
    \/ \E p \in Callers : IncStore(p)

SpecCounter == InitCounter /\ [][NextCounter]_vars

\* the callers that ran on device d
CallersOn(d) == {p \in Callers : local[p].device = d /\ pc[p] # "idle"}

AllReturned == \A p \in Callers : pc[p] = "done"

\* C1: when N callers have run increment_and_get_counter concurrently on a
\* persisted device, with reads and writes interleaved in any order, no two
\* were issued the same value, the values issued are exactly k..k+N-1 (k-1
\* being counter_position before the calls), and counter_position ends at
\* k+N-1.
C1_NoLostUpdate ==
    AllReturned =>
        \A d \in CounterDevices :
            LET N == Cardinality(CallersOn(d))
                k == startPos[d] + 1
            IN  N >= 1 =>
                /\ \A p, q \in CallersOn(d) : p # q => issued[p] # issued[q]
                /\ {issued[p] : p \in CallersOn(d)} = k..(k + N - 1)
                /\ get_metadata(stores["A"],
                                [NoObj EXCEPT !.id = d]).counter_position
                       = k + N - 1

-----------------------------------------------------------------------------
(* Canonicalisation runs: a signed record is taken, attributes of its      *)
(* in-memory instance are overwritten, and verify() is asked again.        *)

MaxEdits == 2

\* the store of the runs: a central authority device and nothing else
CanonStore == create_central_authority_device(EmptyStore, "a", uuid4(1), "kA").st

CanonSigner == CHOOSE d \in CanonStore.db : d.model = "Device"

\* the fields the signature of a record covers
SignedFields(obj) ==
    Range(HashFields(obj, IF obj.model = "Device" THEN DeviceHashedFields
                          ELSE <<>>))

\* records as the signer's installation saved them: id and counter set
CanonUnsigned ==
    {[r EXCEPT !.id = uuid5(CanonSigner.id, "2"), !.counter = 2] :
        r \in {NewDevice("a", set_public_key("kB")),
               [NewDevice("a", set_public_key("kB")) EXCEPT
                    !.f["description"] = PyStr("b")],
               NewRecord("Organization", "a"),
               [NewRecord("Organization", "a") EXCEPT
                    !.f["description"] = PyStr("b")],
               NewRecord("FacilityUser", "a"),
               NewObj("Facility",
                      [name |-> PyStr("a"), description |-> PyStr(""),
                       address |-> PyStr("b"), address_normalized |-> PyStr(""),
                       latitude |-> PyNone, longitude |-> PyFloat("1.5"),
                       zone |-> PyRef("z1")])}}

\* the values a caller can assign to an attribute
StrValues == {PyNone, PyStr(""), PyStr("a"), PyStr("b"), PyStr("a&description=b")}
FloatValues == {PyNone, PyFloat("0.0"), PyFloat("1.5")}
RefValues == {PyNone, PyRef("z1"), PyRef("z2")}

AttrValues(model, field) ==
    CASE field \in {"latitude", "longitude"} -> FloatValues
      [] field \in {"zone", "facility"} -> RefValues
      [] field = "revoked" -> {PyBool(TRUE), PyBool(FALSE)}
      [] OTHER -> StrValues

\* setattr(obj, field, value)
SetAttr(obj, field, value) ==
    CASE field = "id" -> [obj EXCEPT !.id = value]
      [] field = "counter" -> [obj EXCEPT !.counter = value]
      [] field = "signed_version" -> [obj EXCEPT !.signed_version = value]
      [] OTHER -> [obj EXCEPT !.f[field] = value]

InitCanon ==
    /\ \E r \in CanonUnsigned : objA = sign(r, CanonSigner, "kA")
    /\ objB = objA
    /\ opsLeft = MaxEdits
    /\ stores = [s \in Stores |-> IF s = "A" THEN CanonStore ELSE EmptyStore]
    /\ usedRandom = 1 /\ last = NoLast /\ created = <<>>
    /\ pc = <<>> /\ local = <<>> /\ issued = <<>> /\ startPos = <<>>
    /\ sessions = <<>> /\ wire = <<>>

\* one attribute of the signed instance is assigned another value
Overwrite ==
    /\ opsLeft > 0
    /\ \E field \in SignedFields(objB) :
          \E value \in
                CASE field = "id" -> {"", uuid5(CanonSigner.id, "3")}
                  [] field \in {"counter", "signed_version"} -> {NoneInt, 0, 1, 2}
                  [] OTHER -> AttrValues(objB.model, field) :
             /\ Attr(SetAttr(objB, field, value), field) # Attr(objB, field)
             /\ objB' = SetAttr(objB, field, value)
    /\ opsLeft' = opsLeft - 1
    /\ UNCHANGED <<stores, usedRandom, last, created, pc, local, issued,
                   startPos, objA, sessions, wire>>

NextCanon == Overwrite

SpecCanon == InitCanon /\ [][NextCanon]_vars

\* C3: for every signed record, changing the value of a field of its
\* canonical field set to a different value after signing makes verify()
\* false; two records of one type and signer that differ in a signed field
\* never have the same canonical representation.
C3_TamperDetected ==
    (\E field \in SignedFields(objA) : Attr(objB, field) # Attr(objA, field))
        => /\ ~verify(stores["A"], objB)
           /\ hashable_representation(objB) # hashable_representation(objA)

-----------------------------------------------------------------------------
(* The exchange: get_serialized_models on one store, the batch on the      *)
(* wire, save_serialized_models on the other store.                        *)

\* json_serializer.serialize / serializers.deserialize: a record travels as
\* its model label, its pk and its other fields
ModelLabel(model) ==
    CASE model = "Device" -> "securesync.device"
      [] model = "Organization" -> "securesync.organization"
      [] model = "Zone" -> "securesync.zone"
      [] model = "Facility" -> "securesync.facility"
      [] model = "FacilityUser" -> "securesync.facilityuser"

serialize(obj) ==
    [model |-> ModelLabel(obj.model), pk |-> obj.id,
     fields |-> [counter |-> obj.counter, signature |-> obj.signature,
                 signed_version |-> obj.signed_version,
                 signed_by |-> obj.signed_by, own |-> obj.f]]

deserialize(w) ==
    [model |-> CHOOSE m \in Range(syncing_models) : ModelLabel(m) = w.model,
     id |-> w.pk, counter |-> w.fields.counter,
     signature |-> w.fields.signature,
     signed_version |-> w.fields.signed_version,
     signed_by |-> w.fields.signed_by, f |-> w.fields.own]

RECURSIVE Perms(_)
Perms(S) ==
    IF S = {} THEN {<<>>}
    ELSE UNION {{<<x>> \o q : q \in Perms(S \ {x})} : x \in S}

\* Device.objects.all() as the dict the default builds: every device at 0
AllDevicesAtZero(st) ==
    [d \in {r.id : r \in {x \in st.db : x.model = "Device"}} |-> 0]

\* a filter that leaves out the rows whose counter is the watermark
Outstanding_above(st, model, device_id, counter) ==
    Perms({r \in st.db : /\ r.model = model
                         /\ r.signed_by = device_id
                         /\ r.counter # NoneInt
                         /\ r.counter > counter})

\* Model.objects.filter(signed_by=device_id, counter__gte=counter): the rows,
\* in each order the query can return them (it states none)
Outstanding(st, model, device_id, counter) ==
    Perms({r \in st.db : /\ r.model = model
                         /\ r.signed_by = device_id
                         /\ r.counter # NoneInt
                         /\ r.counter >= counter})

\* lines 245-250 from the i-th model and j-th device on; models is the list
\* accumulated so far, devs the order device_counters.items() gives
RECURSIVE Accumulate(_, _, _, _, _, _, _)
Accumulate(st, device_counters, devs, limit, i, j, models) ==
    IF i > Len(syncing_models) THEN {models}
    ELSE IF j > Len(devs)
    THEN Accumulate(st, device_counters, devs, limit, i + 1, 1, models)
    ELSE UNION {
            IF Len(models \o rows) > limit
            THEN {SubSeq(models \o rows, 1, limit)}
            ELSE Accumulate(st, device_counters, devs, limit, i, j + 1,
                            models \o rows) :
            rows \in Outstanding(st, syncing_models[i], devs[j],
                                 device_counters[devs[j]])}

SerializeAll(models) == [k \in 1..Len(models) |-> serialize(models[k])]

\* get_serialized_models: every batch it can return. device_counters is a
\* function from device ids to counters, <<>> standing for None and {}
get_serialized_models(st, device_counters, limit) ==
    LET counters == IF device_counters = <<>> THEN AllDevicesAtZero(st)
                    ELSE device_counters
    IN  {SerializeAll(models) :
            models \in UNION {Accumulate(st, counters, devs, limit, 1, 1, <<>>) :
                                devs \in Perms(DOMAIN counters)}}

\* the foreign keys a concrete class declares, with the model each refers to
ForeignKeys(model) ==
    CASE model = "FacilityUser" -> {<<"facility", "Facility">>}
      [] model = "Facility" -> {<<"zone", "Zone">>}
      [] model = "Zone" -> {<<"organization", "Organization">>}
      [] OTHER -> {}

\* Model.clean_fields, as far as it looks at the store: a foreign key that
\* is set names an existing row
clean_fields(st, obj) ==
    /\ obj.signed_by # "" => HasRow(st, "Device", obj.signed_by)
    /\ \A fk \in ForeignKeys(obj.model) :
          obj.f[fk[1]].t = "model" => HasRow(st, fk[2], obj.f[fk[1]].s)

\* a clean that stops after the signature check
clean_signature_only(st, obj) ==
    IF ~Truthy(PyStr(obj.signature)) THEN "ok"
    ELSE IF obj.signed_by # "" /\ ~HasRow(st, "Device", obj.signed_by)
    THEN "DoesNotExist"
    ELSE IF ~verify(st, obj) THEN "signature invalid"
    ELSE "ok"

\* SyncedModel.clean: "ok", or the error raised. self.signed_by of an id no
\* Device row has raises Device.DoesNotExist inside verify()
clean(st, obj) ==
    IF ~Truthy(PyStr(obj.signature)) THEN "ok"
    ELSE IF obj.signed_by # "" /\ ~HasRow(st, "Device", obj.signed_by)
    THEN "DoesNotExist"
    ELSE IF ~verify(st, obj) THEN "signature invalid"
    ELSE IF /\ requires_authority_signature(obj.model)
            /\ ~get_metadata(st, Lookup(st, "Device", obj.signed_by))
                    .is_trusted_authority
    THEN "not a trusted authority"
    ELSE "ok"

ValidationErrors == {"signature invalid", "not a trusted authority", "field invalid"}

\* Model.full_clean: clean_fields, then clean (run also when a field
\* failed); a ValidationError of either is raised at the end, any other
\* exception at once
full_clean(st, obj) ==
    IF clean(st, obj) = "DoesNotExist" THEN "DoesNotExist"
    ELSE IF clean(st, obj) # "ok" THEN clean(st, obj)
    ELSE IF ~clean_fields(st, obj) THEN "field invalid"
    ELSE "ok"

\* an import in progress: the store, the unsaved_models list, whether an
\* exception left the function, and per record the verdict it got
ImportStart(st) == [st |-> st, unsaved |-> <<>>, raised |-> FALSE, verdicts |-> <<>>]

\* lines 256-263 for one deserialized record
import_one(im, obj) ==
    IF full_clean(im.st, obj) = "ok"
    THEN [im EXCEPT !.st = Persist(im.st, obj), !.verdicts = @ \o <<"saved">>]
    ELSE IF full_clean(im.st, obj) \in ValidationErrors
    THEN [im EXCEPT !.unsaved = @ \o <<obj>>,
                    !.verdicts = @ \o <<full_clean(im.st, obj)>>]
    ELSE [im EXCEPT !.raised = TRUE, !.verdicts = @ \o <<full_clean(im.st, obj)>>]

\* the loop of save_serialized_models from the i-th record on
RECURSIVE import_from(_, _, _)
import_from(im, data, i) ==
    IF i > Len(data) \/ im.raised THEN im
    ELSE import_from(import_one(im, deserialize(data[i])), data, i + 1)

\* save_serialized_models
save_serialized_models(st, data) == import_from(ImportStart(st), data, 1)

-----------------------------------------------------------------------------
(* Exchange runs between two installations: A, whose own device is a       *)
(* central authority, and B, whose own device is an ordinary one. Each     *)
(* store is what the local operations above leave.                         *)

MaxSyncOps == 3
MaxWatermark == 2
DefaultLimit == 1000

Limits == {1, DefaultLimit}

\* installation A: the central authority and two organizations it created
CentralSaved == create_central_authority_device(EmptyStore, "a", uuid4(1), "kA")
Central == CentralSaved.obj
StoreA ==
    SyncedModel_save(
        SyncedModel_save(CentralSaved.st, NewRecord("Organization", "a"),
                         Central, FALSE, uuid4(1), "kA").st,
        NewRecord("Organization", "b"), Central, FALSE, uuid4(1), "kA").st

\* installation B: its own device, registered with is_own_device only, and
\* an organization it created
FieldSaved ==
    Device_save(EmptyStore, NewDevice("b", set_public_key("kB")), FALSE, TRUE,
                NoObj, uuid4(2), "kB")
FieldDevice == FieldSaved.obj
StoreB ==
    SyncedModel_save(FieldSaved.st, NewRecord("Organization", "a"),
                     FieldDevice, FALSE, uuid4(2), "kB").st

\* a store after the Device row of another installation was saved into it
\* as received (Device.save of the row, self_signed given or not)
WithDevice(st, row, self_signed, own, key) ==
    Device_save(st, row, self_signed, FALSE, own, uuid4(MaxRandom), key).st

SourceStores == {WithDevice(StoreA, FieldDevice, FALSE, Central, "kA")}

ReceiverStores ==
    {EmptyStore, StoreB,
     WithDevice(StoreB, Central, FALSE, FieldDevice, "kB"),
     WithDevice(StoreB, Central, TRUE, FieldDevice, "kB")}

NoWire == [data |-> <<>>, src |-> "A", counters |-> <<>>, limit |-> 0,
           corrupted |-> FALSE]

NoImport ==
    [op |-> "none", store |-> "A", wire |-> NoWire, unsaved |-> <<>>,
     raised |-> FALSE, verdicts |-> <<>>, before |-> EmptyStore]

InitSync ==
    /\ \E a \in SourceStores, b \in ReceiverStores :
          stores = [s \in Stores |-> IF s = "A" THEN a ELSE b]
    /\ wire = NoWire
    /\ last = NoImport
    /\ opsLeft = MaxSyncOps
    /\ usedRandom = MaxRandom /\ created = <<>>
    /\ pc = <<>> /\ local = <<>> /\ issued = <<>> /\ startPos = <<>>
    /\ objA = NoObj /\ objB = NoObj /\ sessions = <<>>

SyncFrame ==
    UNCHANGED <<usedRandom, created, pc, local, issued, startPos, objA, objB,
                sessions>>

DeviceIds(st) == {r.id : r \in {x \in st.db : x.model = "Device"}}

\* the device_counters a peer asks with: nothing, or one device's watermark
CounterInputs(st) ==
    {<<>>} \cup {[d \in {dev} |-> w] : dev \in DeviceIds(st), w \in 0..MaxWatermark}

\* get_serialized_models(device_counters, limit) on store src, asked for
\* when no batch is waiting to be imported
Export(src) ==
    /\ opsLeft > 0
    /\ Len(wire.data) = 0 \/ last.wire = wire
    /\ \E device_counters \in CounterInputs(stores[src]), limit \in Limits :
          \E data \in get_serialized_models(stores[src], device_counters, limit) :
              wire' = [data |-> data, src |-> src, counters |-> device_counters,
                       limit |-> limit, corrupted |-> FALSE]
    /\ opsLeft' = opsLeft - 1
    /\ UNCHANGED <<stores, last>>
    /\ SyncFrame

\* what a peer or the transport can do to one record of a batch
Corruptions(w) ==
    {[w EXCEPT !.fields.signature = b64encode("garbage")],
     [w EXCEPT !.fields.signature = ""],
     [w EXCEPT !.fields.own["name"] = PyStr("x")]}

Corrupt ==
    /\ opsLeft > 0
    /\ ~wire.corrupted
    /\ \E i \in 1..Len(wire.data) :
          \E w \in Corruptions(wire.data[i]) :
              wire' = [wire EXCEPT !.data[i] = w, !.corrupted = TRUE]
    /\ opsLeft' = opsLeft - 1
    /\ UNCHANGED <<stores, last>>
    /\ SyncFrame

\* save_serialized_models(data) on store dst
Import(dst) ==
    /\ opsLeft > 0
    /\ Len(wire.data) > 0
    /\ LET im == save_serialized_models(stores[dst], wire.data)
       IN  /\ stores' = [stores EXCEPT ![dst] = im.st]
           /\ last' = [op |-> "import", store |-> dst, wire |-> wire,
                       unsaved |-> im.unsaved, raised |-> im.raised,
                       verdicts |-> im.verdicts, before |-> stores[dst]]
    /\ opsLeft' = opsLeft - 1
    /\ UNCHANGED wire
    /\ SyncFrame

NextSync ==
    \/ \E src \in Stores : Export(src)
    \/ Corrupt
    \/ \E dst \in Stores : Import(dst)

SpecSync == InitSync /\ [][NextSync]_vars

-----------------------------------------------------------------------------
(* Claims about the exchange.                                              *)

Imported == last.op = "import"
Batch == last.wire.data
BatchObj(i) == deserialize(Batch[i])

\* the store record i of the last batch was validated against
PrefixStore(i) == save_serialized_models(last.before, SubSeq(Batch, 1, i - 1)).st
Fails(i) == full_clean(PrefixStore(i), BatchObj(i)) # "ok"
SameKey(a, b) == a.model = b.model /\ a.id = b.id

RECURSIVE FailingFrom(_)
FailingFrom(i) ==
    IF i > Len(Batch) THEN <<>>
    ELSE (IF Fails(i) THEN <<BatchObj(i)>> ELSE <<>>) \o FailingFrom(i + 1)

\* C4: importBatch validates every record of the batch on its own, persists
\* the ones that pass, returns the ones that fail, and a failing record does
\* not stop or undo the others.
C4_ImportPerRecord ==
    Imported =>
        /\ ~last.raised
        /\ last.unsaved = FailingFrom(1)
        /\ \A i \in 1..Len(Batch) :
              ~Fails(i) =>
                  \/ BatchObj(i) \in stores[last.store].db
                  \/ \E j \in (i + 1)..Len(Batch) :
                        ~Fails(j) /\ SameKey(BatchObj(j), BatchObj(i))
        /\ \A i \in 1..Len(Batch) :
              (Fails(i) /\ BatchObj(i) \in stores[last.store].db) =>
                  \/ BatchObj(i) \in last.before.db
                  \/ \E j \in 1..Len(Batch) : ~Fails(j) /\ BatchObj(j) = BatchObj(i)

\* the part of C4 that the code keeps: when no record names a signer the
\* receiver has no row for, the import is per record
KnownSigners ==
    \A i \in 1..Len(Batch) : clean(PrefixStore(i), BatchObj(i)) # "DoesNotExist"
C4_WhenSignersKnown == KnownSigners => C4_ImportPerRecord
C4_Witness ==
    /\ Imported /\ KnownSigners
    /\ \E i, j \in 1..Len(Batch) : Fails(i) /\ ~Fails(j) /\ i < j

\* C5: a fresh store that imports the whole, untruncated export of one
\* device from watermark w holds exactly that device's records with counter
\* >= w, and a further export from max imported counter + 1 is empty.
SingleDeviceExport ==
    /\ Imported
    /\ last.before = EmptyStore
    /\ ~last.wire.corrupted
    /\ DOMAIN last.wire.counters # {}
    /\ Len(Batch) < last.wire.limit
OutstandingRows(st, d, w) ==
    {r \in st.db : r.signed_by = d /\ r.counter >= w}
Max(S) == CHOOSE x \in S : \A y \in S : y <= x
C5_FreshStoreConverges ==
    SingleDeviceExport =>
        LET d == CHOOSE x \in DOMAIN last.wire.counters : TRUE
            w == last.wire.counters[d]
            src == stores[last.wire.src]
            top == Max({BatchObj(i).counter : i \in 1..Len(Batch)})
        IN  /\ ~last.raised
            /\ last.unsaved = <<>>
            /\ stores[last.store].db = OutstandingRows(src, d, w)
            /\ get_serialized_models(src, [x \in {d} |-> top + 1],
                                     last.wire.limit) = {<<>>}

\* C6: a record whose signature verifies, whose type requires an authority
\* signature and whose signer is not a trusted authority (metadata row with
\* the flag false, or no metadata row) is rejected by validate() with the
\* trusted-authority error, and importBatch returns it and does not persist it.
UntrustedValid(st, obj) ==
    /\ requires_authority_signature(obj.model)
    /\ Truthy(PyStr(obj.signature))
    /\ HasRow(st, "Device", obj.signed_by)
    /\ verify(st, obj)
    /\ ~get_metadata(st, Lookup(st, "Device", obj.signed_by)).is_trusted_authority
C6_UntrustedRejected ==
    /\ \A s \in Stores : \A i \in 1..Len(wire.data) :
          UntrustedValid(stores[s], deserialize(wire.data[i])) =>
              clean(stores[s], deserialize(wire.data[i])) = "not a trusted authority"
    /\ Imported =>
          \A i \in 1..Len(Batch) :
              UntrustedValid(PrefixStore(i), BatchObj(i)) =>
                  /\ i \in DOMAIN last.verdicts =>
                        /\ last.verdicts[i] = "not a trusted authority"
                        /\ \E k \in 1..Len(last.unsaved) : last.unsaved[k] = BatchObj(i)
                  /\ BatchObj(i) \in stores[last.store].db =>
                        BatchObj(i) \in last.before.db
C6_Witness ==
    /\ Imported /\ ~last.raised
    /\ \E i \in 1..Len(Batch) :
          /\ UntrustedValid(PrefixStore(i), BatchObj(i))
          /\ HasMetadata(PrefixStore(i), BatchObj(i).signed_by)
    /\ \E i \in 1..Len(Batch) :
          /\ last.verdicts[i] = "not a trusted authority"
          /\ BatchObj(i) \notin stores[last.store].db

-----------------------------------------------------------------------------
(* The session handshake. SyncSession's canonical string and signature     *)
(* checks are the model class's; the handshake's states, its transitions   *)
(* and the gate it puts on the exchange are those of the specification     *)
(* (sections 4.5 and 2): the views that drive them are not part of the     *)
(* sources at hand.                                                        *)

MaxSessionOps == 7
Nonces == {"n1", "n2"}
ServerNonces == {"s1"}

\* SyncSession._hashable_representation
SyncSession_hashable_representation(session) ==
    session.client_nonce \o ":" \o session.client_device \o ":" \o
    session.server_nonce \o ":" \o session.server_device

\* self.server_device.pk while server_device is None: AttributeError
hashable_representation_raises(session) == session.server_device = ""

\* a check that accepts a signature over the string by any key pair
_verify_signature_any_key(st, session, device, signature) ==
    \E key \in Keys :
        crypto_verify(SyncSession_hashable_representation(session), signature, key)

\* SyncSession._verify_signature, the Device row read from store st
_verify_signature(st, session, device, signature) ==
    crypto_verify(SyncSession_hashable_representation(session), signature,
                  get_public_key(Lookup(st, "Device", device)))

verify_client_signature(st, session, signature) ==
    _verify_signature(st, session, session.client_device, signature)

verify_server_signature(st, session, signature) ==
    _verify_signature(st, session, session.server_device, signature)

\* SyncSession.sign, by the installation whose private key is key
SyncSession_sign(session, key) ==
    b64encode(crypto_sign(key, SyncSession_hashable_representation(session)))

\* both installations know both devices; B trusts the central authority
SessionStoreA == WithDevice(StoreA, FieldDevice, FALSE, Central, "kA")
SessionStoreB == WithDevice(StoreB, Central, TRUE, FieldDevice, "kB")

NoSession ==
    [client_nonce |-> "", client_device |-> "", server_nonce |-> "",
     server_device |-> "", verified |-> FALSE, state |-> "None",
     server_signature |-> "", server_key |-> "", client_key |-> "",
     exchanges |-> 0, check_failed |-> FALSE]

InitSession ==
    /\ stores = [s \in Stores |-> IF s = "A" THEN SessionStoreA ELSE SessionStoreB]
    /\ sessions = [n \in Nonces |-> NoSession]
    /\ wire = NoWire
    /\ last = NoImport
    /\ opsLeft = MaxSessionOps
    /\ usedRandom = MaxRandom /\ created = <<>>
    /\ pc = <<>> /\ local = <<>> /\ issued = <<>> /\ startPos = <<>>
    /\ objA = NoObj /\ objB = NoObj

SessionFrame ==
    UNCHANGED <<usedRandom, created, pc, local, issued, startPos, objA, objB>>

\* the client (installation B) opens a session under a nonce not used before
Initiate(n) ==
    /\ opsLeft > 0
    /\ sessions[n].state = "None"
    /\ sessions' = [sessions EXCEPT ![n] =
                       [NoSession EXCEPT !.client_nonce = n,
                                         !.client_device = FieldDevice.id,
                                         !.state = "Initiated"]]
    /\ opsLeft' = opsLeft - 1
    /\ UNCHANGED <<stores, wire, last>>
    /\ SessionFrame

\* the server adds its nonce and the device it claims to be, and signs with
\* the private key it holds
ServerRespond(n) ==
    /\ opsLeft > 0
    /\ sessions[n].state = "Initiated"
    /\ \E server_nonce \in ServerNonces, device \in DeviceIds(stores["A"]),
          key \in Keys :
          LET session == [sessions[n] EXCEPT !.server_nonce = server_nonce,
                                             !.server_device = device]
          IN  sessions' = [sessions EXCEPT ![n] =
                  [session EXCEPT !.state = "ServerResponded",
                                  !.server_key = key,
                                  !.server_signature = SyncSession_sign(session, key)]]
    /\ opsLeft' = opsLeft - 1
    /\ UNCHANGED <<stores, wire, last>>
    /\ SessionFrame

\* the client checks the server's signature, signs, and the server checks
\* the client's: Verified when both hold, Rejected otherwise
Complete(n) ==
    /\ opsLeft > 0
    /\ sessions[n].state = "ServerResponded"
    /\ \E key \in Keys :
          LET session == sessions[n]
              ok == /\ verify_server_signature(stores["B"], session,
                                               session.server_signature)
                    /\ verify_client_signature(stores["A"], session,
                                               SyncSession_sign(session, key))
          IN  sessions' = [sessions EXCEPT ![n] =
                  [session EXCEPT !.client_key = key,
                                  !.verified = ok,
                                  !.check_failed = @ \/ ~ok,
                                  !.state = IF ok THEN "Verified" ELSE "Rejected"]]
    /\ opsLeft' = opsLeft - 1
    /\ UNCHANGED <<stores, wire, last>>
    /\ SessionFrame

\* the client's signature is checked before the server responded: the
\* check raises and leaves the handler, else a false result rejects
CheckClient(n) ==
    /\ opsLeft > 0
    /\ sessions[n].state = "Initiated"
    /\ ~sessions[n].check_failed
    /\ LET session == sessions[n]
       IN  sessions' = [sessions EXCEPT ![n] =
               IF hashable_representation_raises(session)
               THEN [session EXCEPT !.check_failed = TRUE]
               ELSE IF verify_client_signature(stores["A"], session,
                                               b64encode("garbage"))
               THEN session
               ELSE [session EXCEPT !.check_failed = TRUE,
                                    !.state = "Rejected"]]
    /\ opsLeft' = opsLeft - 1
    /\ UNCHANGED <<stores, wire, last>>
    /\ SessionFrame

\* get_serialized_models on the server, under session n
SessionExport(n) ==
    /\ opsLeft > 0
    /\ sessions[n].verified
    /\ \E data \in get_serialized_models(stores["A"], <<>>, DefaultLimit) :
          wire' = [data |-> data, src |-> "A", counters |-> <<>>,
                   limit |-> DefaultLimit, corrupted |-> FALSE]
    /\ sessions' = [sessions EXCEPT ![n].exchanges = @ + 1]
    /\ opsLeft' = opsLeft - 1
    /\ UNCHANGED <<stores, last>>
    /\ SessionFrame

\* save_serialized_models on the client, under session n
SessionImport(n) ==
    /\ opsLeft > 0
    /\ sessions[n].verified
    /\ Len(wire.data) > 0
    /\ LET im == save_serialized_models(stores["B"], wire.data)
       IN  /\ stores' = [stores EXCEPT !["B"] = im.st]
           /\ last' = [op |-> "import", store |-> "B", wire |-> wire,
                       unsaved |-> im.unsaved, raised |-> im.raised,
                       verdicts |-> im.verdicts, before |-> stores["B"]]
    /\ sessions' = [sessions EXCEPT ![n].exchanges = @ + 1]
    /\ opsLeft' = opsLeft - 1
    /\ UNCHANGED wire
    /\ SessionFrame

NextSession ==
    \E n \in Nonces :
        \/ Initiate(n)
        \/ ServerRespond(n)
        \/ Complete(n)
        \/ CheckClient(n)
        \/ SessionExport(n)
        \/ SessionImport(n)

SpecSession == InitSession /\ [][NextSession]_vars

\* the key pair of the device a session names as its server, as B knows it
ServerDeviceKey(session) ==
    get_public_key(Lookup(stores["B"], "Device", session.server_device))
WrongServerKey(session) ==
    /\ session.state \in {"ServerResponded", "Verified", "Rejected"}
    /\ session.server_key # ServerDeviceKey(session)

-----------------------------------------------------------------------------
(* get_serialized_models on its own: one call on a store, with every       *)
(* watermark map over the store's devices and every limit up to MaxLimit.  *)

MaxLimit == 3

\* installation A after it registered B's device as trusted and imported
\* the organization B created: two signers, two types
MixedStore ==
    save_serialized_models(
        WithDevice(StoreA, FieldDevice, TRUE, Central, "kA"),
        SerializeAll(<<CHOOSE r \in StoreB.db : r.model = "Organization">>)).st

\* installation A had it created an organization, a zone of it, and then
\* another organization: counters 2, 3, 4
OneOrganization ==
    SyncedModel_save(CentralSaved.st, NewRecord("Organization", "a"), Central,
                     FALSE, uuid4(1), "kA")
InterleavedStore ==
    SyncedModel_save(
        SyncedModel_save(
            OneOrganization.st,
            NewObj("Zone", [name |-> PyStr("a"), description |-> PyStr(""),
                            organization |-> PyRef(OneOrganization.obj.id)]),
            Central, FALSE, uuid4(1), "kA").st,
        NewRecord("Organization", "b"), Central, FALSE, uuid4(1), "kA").st

ExportStores == {EmptyStore, StoreA, StoreB, MixedStore, InterleavedStore}

\* every map from some of the store's devices to a watermark; <<>> is the
\* empty map (and None)
ExportMaps(st) ==
    UNION {[devs -> 0..MaxWatermark] : devs \in SUBSET DeviceIds(st)}

ExportLimits == 0..MaxLimit \cup {DefaultLimit}

InitExport ==
    /\ \E st \in ExportStores : stores = [s \in Stores |-> st]
    /\ wire = NoWire
    /\ last = NoImport
    /\ opsLeft = 1
    /\ usedRandom = MaxRandom /\ created = <<>>
    /\ pc = <<>> /\ local = <<>> /\ issued = <<>> /\ startPos = <<>>
    /\ objA = NoObj /\ objB = NoObj /\ sessions = <<>>

\* get_serialized_models(device_counters, limit)
ExportCall ==
    /\ opsLeft > 0
    /\ \E device_counters \in ExportMaps(stores["A"]), limit \in ExportLimits :
          \E data \in get_serialized_models(stores["A"], device_counters, limit) :
              wire' = [data |-> data, src |-> "A", counters |-> device_counters,
                       limit |-> limit, corrupted |-> FALSE]
    /\ opsLeft' = opsLeft - 1
    /\ UNCHANGED <<stores, last>>
    /\ SyncFrame

NextExport == ExportCall

SpecExport == InitExport /\ [][NextExport]_vars

Exported == opsLeft = 0
ExportedObj(i) == deserialize(wire.data[i])
TypeIndex(model) == CHOOSE k \in 1..Len(syncing_models) : syncing_models[k] = model
Position(devs, d) == CHOOSE k \in 1..Len(devs) : devs[k] = d

\* what a batch must be for the watermark map given
ExportContract(map) ==
    LET st == stores[wire.src]
        n == Len(wire.data)
        outstanding == {r \in st.db : /\ r.signed_by \in DOMAIN map
                                      /\ r.counter >= map[r.signed_by]}
    IN  /\ \A i \in 1..n : ExportedObj(i) \in outstanding
        /\ \A i, j \in 1..n : i # j => wire.data[i] # wire.data[j]
        /\ \E devs \in Perms(DOMAIN map) :
              \A i, j \in 1..n :
                  i < j =>
                      \/ TypeIndex(ExportedObj(i).model) < TypeIndex(ExportedObj(j).model)
                      \/ /\ ExportedObj(i).model = ExportedObj(j).model
                         /\ Position(devs, ExportedObj(i).signed_by)
                                <= Position(devs, ExportedObj(j).signed_by)
        /\ n <= wire.limit
        /\ IF Cardinality(outstanding) <= wire.limit
           THEN {ExportedObj(i) : i \in 1..n} = outstanding
           ELSE n = wire.limit

\* C13 as stated: for every store, watermark map and limit the batch holds
\* only records of the map's devices at or above their watermark, none
\* twice, type-first then device, at most limit records, all of them when
\* they are at most limit and exactly limit otherwise.
C13_ExportContract == Exported => ExportContract(wire.counters)

\* C13, amended: the same for every non-empty map; an empty or absent map
\* stands for the map of every Device row of the store to watermark 0.
C13_ExportContractDefaulted ==
    Exported =>
        ExportContract(IF wire.counters = <<>>
                       THEN AllDevicesAtZero(stores[wire.src])
                       ELSE wire.counters)
\* a truncated batch of two types over a two-device map
C13_Witness ==
    /\ Exported
    /\ Cardinality(DOMAIN wire.counters) = 2
    /\ Len(wire.data) = wire.limit
    /\ \E i, j \in 1..Len(wire.data) :
          ExportedObj(i).model # ExportedObj(j).model
    /\ Cardinality({r \in stores[wire.src].db :
                        r.counter >= wire.counters[r.signed_by]}) > wire.limit

-----------------------------------------------------------------------------
(* Device.increment_and_get_counter called again and again, one call at a  *)
(* time, on the Device rows of a store and on a Device not yet saved.      *)

MaxAllocs == 4

AllocStores == {StoreA, StoreB, MixedStore}

\* the instances a caller holds: the rows of the table, and a new Device
AllocDevices(st) ==
    {r \in st.db : r.model = "Device"} \cup {NewDevice("a", set_public_key("kA"))}

NoAlloc == [op |-> "none", device |-> NoObj, ret |-> 0, before |-> EmptyStore]

InitAlloc ==
    /\ \E st \in AllocStores : stores = [s \in Stores |-> st]
    /\ issued = <<>>
    /\ last = NoAlloc
    /\ opsLeft = MaxAllocs
    /\ wire = NoWire
    /\ usedRandom = MaxRandom /\ created = <<>>
    /\ pc = <<>> /\ local = <<>> /\ startPos = <<>>
    /\ objA = NoObj /\ objB = NoObj /\ sessions = <<>>

\* device.increment_and_get_counter()
Allocate ==
    /\ opsLeft > 0
    /\ \E device \in AllocDevices(stores["A"]) :
          LET inc == increment_and_get_counter(stores["A"], device)
          IN  /\ stores' = [stores EXCEPT !["A"] = inc.st]
              /\ issued' = Append(issued, [device |-> device.id, ret |-> inc.ret])
              /\ last' = [op |-> "increment_and_get_counter", device |-> device,
                          ret |-> inc.ret, before |-> stores["A"]]
    /\ opsLeft' = opsLeft - 1
    /\ UNCHANGED <<wire, usedRandom, created, pc, local, startPos, objA, objB,
                   sessions>>

NextAlloc == Allocate

SpecAlloc == InitAlloc /\ [][NextAlloc]_vars

Allocated == last.op = "increment_and_get_counter"
OtherMetadata(st, device) == {m \in st.meta : m.device # device.id}

\* C15: run one call at a time, increment_and_get_counter on a device whose
\* id is unset returns 0 and changes nothing; on a persisted device it
\* returns counter_position + 1 and stores it; every value issued for a
\* device is greater than every value issued for it before, and no other
\* device's counter_position changes.
C15_SequentialCounter ==
    /\ Allocated =>
          IF last.device.id = ""
          THEN /\ last.ret = 0
               /\ stores["A"] = last.before
          ELSE /\ last.ret = get_metadata(last.before, last.device).counter_position + 1
               /\ HasMetadata(stores["A"], last.device.id)
               /\ get_metadata(stores["A"], last.device).counter_position = last.ret
               /\ OtherMetadata(stores["A"], last.device)
                      = OtherMetadata(last.before, last.device)
               /\ stores["A"].db = last.before.db
    /\ \A i, j \in 1..Len(issued) :
          (i < j /\ issued[i].device = issued[j].device /\ issued[i].device # "")
              => issued[i].ret < issued[j].ret
\* two values issued for a device that had no metadata row, and a call on a
\* device without id in between
C15_Witness ==
    /\ Allocated
    /\ \E i, j, k \in 1..Len(issued) :
          /\ i < k /\ k < j
          /\ issued[i].device = issued[j].device
          /\ issued[i].device # ""
          /\ issued[i].ret = 1
          /\ issued[k].device = ""

-----------------------------------------------------------------------------
(* The order of the fields in the canonical string.                        *)

\* the list the class of obj passes to SyncedModel._hashable_representation
FieldsGiven(obj) == IF obj.model = "Device" THEN DeviceHashedFields ELSE <<>>
IndexIn(seq, x) == CHOOSE k \in 1..Len(seq) : seq[k] = x

\* C16: the canonical field sequence always holds signed_version and id;
\* when the list in use omits one or both they are put at the front so that
\* signed_version comes before id and both before the other fields; the
\* default list is every field but signature and signed_by in
\* lexicographic order.
C16_AlwaysHashedInFront ==
    LET fields == HashFields(objB, FieldsGiven(objB))
        Before(x, y) == IndexIn(fields, x) < IndexIn(fields, y)
    IN  /\ InList("signed_version", fields) /\ InList("id", fields)
        /\ FieldsGiven(objB) # <<>> =>
              /\ Before("signed_version", "id")
              /\ \A f \in Range(fields) \ {"signed_version", "id"} :
                    Before("signed_version", f) /\ Before("id", f)
        /\ FieldsGiven(objB) = <<>> =>
              /\ Range(fields) = Range(MetaFields(objB.model))
                                     \ _unhashable_fields
              /\ \A i, j \in 1..Len(fields) :
                    i < j => IndexIn(LexOrder, fields[i]) < IndexIn(LexOrder, fields[j])

-----------------------------------------------------------------------------
(* The signer of a Device row. Both installations hold the self-signed     *)
(* rows of both devices; a caller signs a loaded row and saves it, and     *)
(* the installations exchange batches.                                     *)

MaxSignerOps == 3

InitSigner ==
    /\ stores = [s \in Stores |-> IF s = "A" THEN SessionStoreA ELSE SessionStoreB]
    /\ wire = NoWire
    /\ last = NoImport
    /\ opsLeft = MaxSignerOps
    /\ usedRandom = MaxRandom /\ created = <<>>
    /\ pc = <<>> /\ local = <<>> /\ issued = <<>> /\ startPos = <<>>
    /\ objA = NoObj /\ objB = NoObj /\ sessions = <<>>

\* d = Device.objects.get(...); d.sign(); d.save()
SignAndSave(s) ==
    /\ opsLeft > 0
    /\ \E d \in {r \in stores[s].db : r.model = "Device"},
          own \in get_own_device(stores[s]) :
          LET saved == Device_save(stores[s], sign(d, own, LocalKey(s)), FALSE,
                                   FALSE, own, uuid4(MaxRandom), LocalKey(s))
          IN  /\ saved.ok
              /\ stores' = [stores EXCEPT ![s] = saved.st]
    /\ opsLeft' = opsLeft - 1
    /\ UNCHANGED <<wire, last>>
    /\ SyncFrame

NextSigner ==
    \/ \E s \in Stores : SignAndSave(s)
    \/ \E src \in Stores : Export(src)
    \/ \E dst \in Stores : Import(dst)

SpecSigner == InitSigner /\ [][NextSigner]_vars

SelfSignedDevices(st) ==
    {r \in st.db : r.model = "Device" /\ r.signed_by = r.id}

\* C17: once a Device row is persisted signed by itself, no later step (a
\* Device.save, a sign, an import of a record with the same id) leaves the
\* row of that id with another signer.
C17_SelfSignedStaysSelfSigned ==
    [][\A s \in Stores :
          \A r \in SelfSignedDevices(stores[s]) :
              \A q \in stores'[s].db :
                  (q.model = "Device" /\ q.id = r.id) => q.signed_by = r.id]_vars

-----------------------------------------------------------------------------
(* save_serialized_models called twice with one batch. The batch is any    *)
(* sequence of up to MaxBatch different records the central installation   *)
(* holds, in any order; the receiver trusts the central authority or not.  *)

MaxBatch == 2
MaxRetryOps == 3

\* installation A with a zone of its first organization
StoreWithZone ==
    SyncedModel_save(
        StoreA,
        NewObj("Zone",
               [name |-> PyStr("a"), description |-> PyStr(""),
                organization |->
                    PyRef((CHOOSE r \in StoreA.db :
                               r.model = "Organization" /\ r.counter = 2).id)]),
        Central, FALSE, uuid4(1), "kA").st

\* the serialized records a batch is made of
BatchPool == {serialize(r) : r \in StoreWithZone.db}

RECURSIVE BatchesOf(_, _)
BatchesOf(pool, n) ==
    IF n = 0 THEN {<<>>}
    ELSE {<<>>} \cup
         UNION {{<<w>> \o rest : rest \in BatchesOf(pool \ {w}, n - 1)} : w \in pool}

RetryReceivers ==
    {StoreB,
     WithDevice(StoreB, Central, FALSE, FieldDevice, "kB"),
     WithDevice(StoreB, Central, TRUE, FieldDevice, "kB")}

InitRetry ==
    /\ \E b \in RetryReceivers :
          stores = [s \in Stores |-> IF s = "A" THEN StoreWithZone ELSE b]
    /\ wire = NoWire
    /\ last = NoImport
    /\ opsLeft = MaxRetryOps
    /\ usedRandom = MaxRandom /\ created = <<>>
    /\ pc = <<>> /\ local = <<>> /\ issued = <<>> /\ startPos = <<>>
    /\ objA = NoObj /\ objB = NoObj /\ sessions = <<>>

\* a batch arrives
Receive ==
    /\ opsLeft > 0
    /\ Len(wire.data) = 0
    /\ \E data \in BatchesOf(BatchPool, MaxBatch) :
          wire' = [NoWire EXCEPT !.data = data]
    /\ opsLeft' = opsLeft - 1
    /\ UNCHANGED <<stores, last>>
    /\ SyncFrame

NextRetry ==
    \/ Receive
    \/ Import("B")

SpecRetry == InitRetry /\ [][NextRetry]_vars

\* C18: importing a batch a second time leaves the store as the first
\* import left it, with no two rows of one id, and returns the same rejected
\* set.
C18_ImportIdempotent ==
    [][(Imported /\ last'.op = "import" /\ last'.wire = last.wire
            /\ last'.store = last.store /\ last'.before = stores[last.store])
        => /\ stores' = stores
           /\ last'.unsaved = last.unsaved
           /\ last'.raised = last.raised
           /\ \A r, q \in stores'[last.store].db : SameKey(r, q) => r = q]_vars

-----------------------------------------------------------------------------
(* What an import persists.                                                *)

\* C19: every record an import persisted carries a non-empty signature and
\* a signed_by device, and the signature verifies against that device's
\* public key; a record arriving with an empty signature or without
\* signed_by is rejected and not persisted.
C19_OnlySignedPersisted ==
    Imported =>
        \A i \in DOMAIN last.verdicts :
            /\ last.verdicts[i] = "saved" =>
                  /\ BatchObj(i).signature # ""
                  /\ BatchObj(i).signed_by # ""
                  /\ verify(PrefixStore(i), BatchObj(i))
            /\ (BatchObj(i).signature = "" \/ BatchObj(i).signed_by = "") =>
                  /\ last.verdicts[i] \in ValidationErrors
                  /\ BatchObj(i) \notin stores[last.store].db

-----------------------------------------------------------------------------
(* What a truncated export leaves out.                                     *)

EffectiveCounters ==
    IF wire.counters = <<>> THEN AllDevicesAtZero(stores[wire.src])
    ELSE wire.counters
OutstandingNow ==
    {r \in stores[wire.src].db :
        /\ r.signed_by \in DOMAIN EffectiveCounters
        /\ r.counter >= EffectiveCounters[r.signed_by]}
Included == {ExportedObj(i) : i \in 1..Len(wire.data)}

\* C20: in a truncated batch every outstanding record left out has a
\* counter greater than every included record of the same signer, so that
\* advancing each watermark to the largest imported counter + 1 skips no
\* record.
C20_TruncationKeepsCounterOrder ==
    Exported =>
        \A r \in OutstandingNow \ Included :
            \A q \in Included :
                q.signed_by = r.signed_by => r.counter > q.counter

\* the same, for the batches whose types are in creation order only through
\* the order of syncing_models: the rows of each type taken by counter
C20_TypeOrderOnly ==
    (/\ Exported
     /\ \A i, j \in 1..Len(wire.data) :
           (i < j /\ ExportedObj(i).model = ExportedObj(j).model
                  /\ ExportedObj(i).signed_by = ExportedObj(j).signed_by)
               => ExportedObj(i).counter < ExportedObj(j).counter
     /\ \A r \in OutstandingNow \ Included :
           \A q \in Included :
               (q.signed_by = r.signed_by /\ q.model = r.model)
                   => r.counter > q.counter)
        => C20_TruncationKeepsCounterOrder

====
